---------------------------- MODULE Spec2Model ----------------------------
(***************************************************************************)
(* A model of AVSCommon/Utils/src/TimeUtils.cpp: the calendar arithmetic   *)
(* of timegmCustom (IsLeapYear, NumLeapDays, the cumulative-days tables),  *)
(* the fixed-offset ISO-8601 parser convert8601TimeStringToUnix, the       *)
(* formatter convertTimeToUtcIso8601Rfc3339, convertToUtcTimeT and         *)
(* getCurrentUnixTime.                                                     *)
(*                                                                         *)
(* Representation.  std::time_t and int64_t are 64 bits wide, wider than   *)
(* the integers of the model checker, so a count of seconds v is held as   *)
(* the record [d |-> v div 86400, s |-> v mod 86400] (floor division,      *)
(* 0 <= s < 86400), and a count of milliseconds v as                       *)
(* [d |-> v div 86400000, ms |-> v mod 86400000].  Every value the modelled*)
(* inputs produce is far inside the 64-bit range, so no operation wraps.   *)
(* A string is a sequence of one-character strings.                        *)
(***************************************************************************)
EXTENDS Integers, Sequences, FiniteSets

VARIABLES
    pc,                 \* "start" before the call, then "done", "crashed", ...
    op,                 \* the operation the caller invokes
    USE_CUSTOM_TIMEGM,  \* the build: TRUE off Linux (timegmCustom), FALSE on Linux (timegm)
    year,               \* argument of IsLeapYear / NumLeapDays
    utcTm,              \* argument of timegmCustom / convertToUtcTimeT: [null, tm]
    timeString,         \* argument of convert8601TimeStringToUnix
    tp,                 \* argument of convertTimeToUtcIso8601Rfc3339, in milliseconds
    dest,               \* the caller's destination: [null, written, val]
    result,             \* the value the call returned
    logged,             \* the ACSDK_ERROR events the call logged, in order
    nFields,            \* how many fields the parser handed to stringToInt
    oob,                \* a cumulative-days table was indexed outside 0..11
    env                 \* the platform: [gmtimeOk, strftimeOk, now, garbage, ub]

vars == <<pc, op, USE_CUSTOM_TIMEGM, year, utcTm, timeString, tp, dest, result,
          logged, nFields, oob, env>>

-----------------------------------------------------------------------------
(* C++ integer arithmetic *)

\* a / b of C++ for b > 0: the quotient truncated towards zero.
CDiv(a, b) == IF a >= 0 THEN a \div b ELSE -((-a) \div b)

\* a % b of C++ for b > 0: the remainder has the sign of a.
CMod(a, b) == a - b * CDiv(a, b)

\* x & m of C++ for a mask m >= 0 on a two's complement x of any width: bit by
\* bit from the lowest, x \div 2 (floor) being the arithmetic shift x >> 1.
RECURSIVE BitAnd(_, _)
BitAnd(x, m) ==
    IF m = 0 THEN 0
    ELSE (x % 2) * (m % 2) + 2 * BitAnd(x \div 2, m \div 2)

-----------------------------------------------------------------------------
(* The constants of the anonymous namespace *)

kSecondsInMinute == 60
kMinutesInHour == 60
kHoursInDay == 24
kDaysInYear == 365
kSecondsInHour == kSecondsInMinute * kMinutesInHour
kSecondsInDay == kSecondsInHour * kHoursInDay
kEpochYearBase == 1970
kTMYearBase == 1900

kDaysUptoMonth ==
    << 0,
       31,
       31 + 28,
       31 + 28 + 31,
       31 + 28 + 31 + 30,
       31 + 28 + 31 + 30 + 31,
       31 + 28 + 31 + 30 + 31 + 30,
       31 + 28 + 31 + 30 + 31 + 30 + 31,
       31 + 28 + 31 + 30 + 31 + 30 + 31 + 31,
       31 + 28 + 31 + 30 + 31 + 30 + 31 + 31 + 30,
       31 + 28 + 31 + 30 + 31 + 30 + 31 + 31 + 30 + 31,
       31 + 28 + 31 + 30 + 31 + 30 + 31 + 31 + 30 + 31 + 30 >>

kDaysUptoMonthLeapYear ==
    << 0,
       31,
       31 + 29,
       31 + 29 + 31,
       31 + 29 + 31 + 30,
       31 + 29 + 31 + 30 + 31,
       31 + 29 + 31 + 30 + 31 + 30,
       31 + 29 + 31 + 30 + 31 + 30 + 31,
       31 + 29 + 31 + 30 + 31 + 30 + 31 + 31,
       31 + 29 + 31 + 30 + 31 + 30 + 31 + 31 + 30,
       31 + 29 + 31 + 30 + 31 + 30 + 31 + 31 + 30 + 31,
       31 + 29 + 31 + 30 + 31 + 30 + 31 + 31 + 30 + 31 + 30 >>

\* A faulty variant of IsLeapYear: the 400-year exception is left out.
IsLeapYear_no400(y) ==
    LET common_year ==
            (BitAnd(y, 3) # 0) \/ (CMod(y + kTMYearBase, 100) = 0)
    IN  ~common_year

\* year is base 1900.
IsLeapYear(y) ==
    LET common_year ==
            (BitAnd(y, 3) # 0)
            \/ ((CMod(y + kTMYearBase, 100) = 0) /\ (CMod(y + kTMYearBase, 400) # 0))
    IN  ~common_year

kPosBase4 == CMod(kEpochYearBase + 3, 4)
kPosBase100 == CMod(kEpochYearBase + 99, 100)
kPosBase400 == CMod(kEpochYearBase + 399, 400)
kNegBase4 == 4 - CMod(kEpochYearBase, 4)
kNegBase100 == 100 - CMod(kEpochYearBase, 100)
kNegBase400 == 400 - CMod(kEpochYearBase, 400)

\* A faulty variant of NumLeapDays: the formula of the non-negative branch on every year.
NumLeapDays_posOnly(y) ==
    CDiv(y + kPosBase4, 4) - CDiv(y + kPosBase100, 100) + CDiv(y + kPosBase400, 400)

\* Number of leap days since 1970; year is base 1970.
NumLeapDays(y) ==
    IF y >= 0
    THEN CDiv(y + kPosBase4, 4) - CDiv(y + kPosBase100, 100)
         + CDiv(y + kPosBase400, 400)
    ELSE CDiv(y - kNegBase4, 4) - CDiv(y - kNegBase100, 100)
         + CDiv(y - kNegBase400, 400)

-----------------------------------------------------------------------------
(* std::time_t values: [d, s] stands for d * kSecondsInDay + s *)

\* The time_t of n seconds, for an n the model checker can hold.
Seconds(n) == [d |-> n \div kSecondsInDay, s |-> n % kSecondsInDay]

\* The time_t n * kSecondsInDay.
Days(n) == [d |-> n, s |-> 0]

\* a + b on time_t.
TimeAdd(a, b) ==
    [d |-> a.d + b.d + ((a.s + b.s) \div kSecondsInDay),
     s |-> (a.s + b.s) % kSecondsInDay]

\* a >= 0 on time_t.
TimeNonNegative(a) == a.d >= 0

\* A struct tm, as far as this file reads or writes it.
Tm(y, mon, mday, hour, min, sec) ==
    [tm_year |-> y, tm_mon |-> mon, tm_mday |-> mday,
     tm_hour |-> hour, tm_min |-> min, tm_sec |-> sec, tm_isdst |-> 0]

\* table[index] of a 12-entry array: an index outside 0..11 reads whatever lies
\* beside the array, which is the value `garbage`.
TableAt(table, index, garbage) ==
    IF index \in 0..11 THEN table[index + 1] ELSE garbage

\* A faulty variant of timegmCustom: the current year's months always come from the
\* common-year table.
timegmCustom_noLeapTable(tm, garbage) ==
    LET years_since_epoch == tm.tm_year + kTMYearBase - kEpochYearBase
        time0 == TimeAdd(Days(years_since_epoch * kDaysInYear),
                         Days(NumLeapDays(years_since_epoch)))
        time1 == TimeAdd(time0, Days(TableAt(kDaysUptoMonth, tm.tm_mon, garbage)))
    IN  TimeAdd(time1,
                TimeAdd(Days(tm.tm_mday - 1),
                        Seconds(tm.tm_hour * kSecondsInHour
                                + tm.tm_min * kSecondsInMinute + tm.tm_sec)))

\* timegmCustom(tm).  kSecondsInYear is kDaysInYear * kSecondsInDay, so
\* years_since_epoch * kSecondsInYear is Days(years_since_epoch * kDaysInYear).
timegmCustom(tm, garbage) ==
    LET years_since_epoch == tm.tm_year + kTMYearBase - kEpochYearBase
        time0 == TimeAdd(Days(years_since_epoch * kDaysInYear),
                         Days(NumLeapDays(years_since_epoch)))
        time1 == TimeAdd(time0,
                         IF IsLeapYear(tm.tm_year)
                         THEN Days(TableAt(kDaysUptoMonthLeapYear, tm.tm_mon, garbage))
                         ELSE Days(TableAt(kDaysUptoMonth, tm.tm_mon, garbage)))
    IN  TimeAdd(time1,
                TimeAdd(Days(tm.tm_mday - 1),
                        Seconds(tm.tm_hour * kSecondsInHour
                                + tm.tm_min * kSecondsInMinute + tm.tm_sec)))

\* Whether timegmCustom(tm) indexes a table outside its 12 entries.
timegmCustomOutOfBounds(tm) == tm.tm_mon \notin 0..11

-----------------------------------------------------------------------------
(* The platform's calendar primitives, on the proleptic Gregorian calendar *)

\* Days from 1970-01-01 to the civil date y-m-d (m in 1..12, any d).
DaysFromCivil(y, m, d) ==
    LET yy  == IF m <= 2 THEN y - 1 ELSE y
        era == yy \div 400
        yoe == yy - era * 400
        mp  == IF m > 2 THEN m - 3 ELSE m + 9
        doy == ((153 * mp + 2) \div 5) + d - 1
        doe == yoe * 365 + (yoe \div 4) - (yoe \div 100) + doy
    IN  era * 146097 + doe - 719468

\* timegm(&tm) of the C library: tm_mon is normalised into the year, the other
\* fields count linearly.
timegm(tm) ==
    LET y == tm.tm_year + 1900 + (tm.tm_mon \div 12)
        m == (tm.tm_mon % 12) + 1
    IN  TimeAdd(Days(DaysFromCivil(y, m, tm.tm_mday)),
                Seconds(tm.tm_hour * 3600 + tm.tm_min * 60 + tm.tm_sec))

\* gmtime of the C library behind SafeCTimeAccess::getGmtime: the UTC breakdown
\* of a time_t.
getGmtime(t) ==
    LET z   == t.d + 719468
        era == z \div 146097
        doe == z - era * 146097
        yoe == (doe - (doe \div 1460) + (doe \div 36524) - (doe \div 146096)) \div 365
        doy == doe - (365 * yoe + (yoe \div 4) - (yoe \div 100))
        mp  == (5 * doy + 2) \div 153
        d   == doy - ((153 * mp + 2) \div 5) + 1
        m   == IF mp < 10 THEN mp + 3 ELSE mp - 9
        y   == yoe + era * 400 + (IF m <= 2 THEN 1 ELSE 0)
    IN  Tm(y - 1900, m - 1, d, t.s \div 3600, (t.s % 3600) \div 60, t.s % 60)

-----------------------------------------------------------------------------
(* The caller's side of a call *)

\* A destination is [null, written, val]: whether the caller passed nullptr,
\* whether the call has stored through the pointer, and the contents.
Unset == "unset"
FreshDest == [null |-> FALSE, written |-> FALSE, val |-> Seconds(0)]
NullDest == [null |-> TRUE, written |-> FALSE, val |-> Seconds(0)]
FreshString == [null |-> FALSE, written |-> FALSE, val |-> << >>]
NullString == [null |-> TRUE, written |-> FALSE, val |-> << >>]
Stored(v) == [null |-> FALSE, written |-> TRUE, val |-> v]

\* A pointer to a struct tm: [null, tm].
PointerTo(tm) == [null |-> FALSE, tm |-> tm]

\* A platform on which nothing fails.
QuietEnv == [gmtimeOk |-> TRUE, strftimeOk |-> TRUE, now |-> Seconds(0), garbage |-> 0, ub |-> "crashed"]

NoTm == [null |-> TRUE, tm |-> Tm(0, 0, 0, 0, 0, 0)]
NoString == << >>
NoTimePoint == [d |-> 0, ms |-> 0]

\* The Gregorian rule on a full year, and the length of a month under it.
GregorianLeap(y) == (y % 4 = 0) /\ ((y % 100 # 0) \/ (y % 400 = 0))
DaysInMonth(y, m) ==
    IF m = 2 THEN (IF GregorianLeap(y) THEN 29 ELSE 28)
    ELSE IF m \in {4, 6, 9, 11} THEN 30 ELSE 31

-----------------------------------------------------------------------------
(* SpecLeap: IsLeapYear and NumLeapDays on every year of a range *)

MinFullYear == 1600
MaxFullYear == 2400
FullYears == MinFullYear..MaxFullYear

InitLeap ==
    /\ pc = "start"
    /\ op \in {"IsLeapYear", "NumLeapDays"}
    /\ USE_CUSTOM_TIMEGM = TRUE
    /\ \E y \in FullYears :
          year = IF op = "IsLeapYear" THEN y - kTMYearBase ELSE y - kEpochYearBase
    /\ utcTm = NoTm
    /\ timeString = NoString
    /\ tp = NoTimePoint
    /\ dest = FreshDest
    /\ result = Unset
    /\ logged = << >>
    /\ nFields = 0
    /\ oob = FALSE
    /\ env = QuietEnv

IsLeapYearCall ==
    /\ pc = "start"
    /\ op = "IsLeapYear"
    /\ result' = IsLeapYear(year)
    /\ pc' = "done"
    /\ UNCHANGED <<op, USE_CUSTOM_TIMEGM, year, utcTm, timeString, tp, dest,
                   logged, nFields, oob, env>>

NumLeapDaysCall ==
    /\ pc = "start"
    /\ op = "NumLeapDays"
    /\ result' = NumLeapDays(year)
    /\ pc' = "done"
    /\ UNCHANGED <<op, USE_CUSTOM_TIMEGM, year, utcTm, timeString, tp, dest,
                   logged, nFields, oob, env>>

NextLeap == IsLeapYearCall \/ NumLeapDaysCall

SpecLeap == InitLeap /\ [][NextLeap]_vars

\* C2: for every full year y in the range, IsLeapYear(y - 1900) is true iff
\* y % 4 = 0 and (y % 100 # 0 or y % 400 = 0); 2000 and 2004 are leap years,
\* 1900 and 2001 are not.
C2_IsLeapYearIsGregorian ==
    (pc = "done" /\ op = "IsLeapYear") =>
        /\ result = GregorianLeap(year + 1900)
        /\ (year + 1900 \in {2000, 2004}) => result = TRUE
        /\ (year + 1900 \in {1900, 2001}) => result = FALSE

\* IsLeapYear has answered for 1700, a century year that is no leap year and
\* whose argument, 1700 - 1900, is negative.
C2_Witness ==
    /\ pc = "done"
    /\ op = "IsLeapYear"
    /\ year = 1700 - 1900
    /\ result = FALSE

\* The leap years L with lo <= L < hi, counted one by one.
LeapYearsIn(lo, hi) == Cardinality({L \in lo..(hi - 1) : GregorianLeap(L)})

\* C9: NumLeapDays(y) is the signed count of leap days between 1 January 1970
\* and 1 January of 1970 + y: the leap years in [1970, 1970 + y) for y >= 0,
\* minus the leap years in [1970 + y, 1970) for y < 0.
C9_NumLeapDaysCounts ==
    (pc = "done" /\ op = "NumLeapDays") =>
        result = IF year >= 0
                 THEN LeapYearsIn(1970, 1970 + year)
                 ELSE -LeapYearsIn(1970 + year, 1970)

\* NumLeapDays has answered for a year before 1970 whose span holds a leap day.
C9_Witness ==
    /\ pc = "done"
    /\ op = "NumLeapDays"
    /\ year < -1
    /\ result < 0

-----------------------------------------------------------------------------
(* SpecTimegm: timegmCustom on valid civil times *)

\* The years of the round trip, and the times of day tried on each date.
CivilYears == 1901..2100
TimesOfDay == {<<h, m, s>> : h \in {0, 12, 23}, m \in {0, 59}, s \in {0, 59}}

InitTimegm ==
    /\ pc = "start"
    /\ op = "timegmCustom"
    /\ USE_CUSTOM_TIMEGM = TRUE
    /\ year = 0
    /\ \E y \in CivilYears, m \in 1..12, t \in TimesOfDay :
          \E d \in 1..DaysInMonth(y, m) :
             utcTm = PointerTo(Tm(y - 1900, m - 1, d, t[1], t[2], t[3]))
    /\ timeString = NoString
    /\ tp = NoTimePoint
    /\ dest = FreshDest
    /\ result = Unset
    /\ logged = << >>
    /\ nFields = 0
    /\ oob = FALSE
    /\ env = QuietEnv

timegmCustomCall ==
    /\ pc = "start"
    /\ op = "timegmCustom"
    /\ result' = timegmCustom(utcTm.tm, env.garbage)
    /\ oob' = timegmCustomOutOfBounds(utcTm.tm)
    /\ pc' = "done"
    /\ UNCHANGED <<op, USE_CUSTOM_TIMEGM, year, utcTm, timeString, tp, dest,
                   logged, nFields, env>>

NextTimegm == timegmCustomCall

SpecTimegm == InitTimegm /\ [][NextTimegm]_vars

\* C1: for every valid civil time t with year in [1901, 2100], timegmCustom(t)
\* is the epoch second whose UTC breakdown is t again, which is also what the
\* platform's timegm gives; 1969-12-31T23:59:59 gives -1 and
\* 1970-01-01T00:00:00 gives 0.
C1_TimegmCustomRoundTrip ==
    (pc = "done" /\ op = "timegmCustom") =>
        /\ getGmtime(result) = utcTm.tm
        /\ result = timegm(utcTm.tm)
        /\ (utcTm.tm = Tm(69, 11, 31, 23, 59, 59)) => result = Seconds(-1)
        /\ (utcTm.tm = Tm(70, 0, 1, 0, 0, 0)) => result = Seconds(0)

\* timegmCustom has converted the last second before the epoch, a negative value.
C1_Witness ==
    /\ pc = "done"
    /\ op = "timegmCustom"
    /\ utcTm.tm = Tm(69, 11, 31, 23, 59, 59)
    /\ result = [d |-> -1, s |-> 86399]

-----------------------------------------------------------------------------
(* Strings, and the layout of the encoded time string *)

Digits == <<"0", "1", "2", "3", "4", "5", "6", "7", "8", "9">>
IsDigit(c) == c \in {"0", "1", "2", "3", "4", "5", "6", "7", "8", "9"}
DigitValue(c) ==
    CASE c = "0" -> 0 [] c = "1" -> 1 [] c = "2" -> 2 [] c = "3" -> 3 [] c = "4" -> 4
      [] c = "5" -> 5 [] c = "6" -> 6 [] c = "7" -> 7 [] c = "8" -> 8 [] c = "9" -> 9

\* The decimal text of n >= 0.
RECURSIVE DecimalOf(_)
DecimalOf(n) ==
    IF n < 10 THEN <<Digits[n + 1]>>
    ELSE DecimalOf(n \div 10) \o <<Digits[(n % 10) + 1]>>

\* The text of n as operator<< writes it: a '-' before the digits of a negative n.
IntText(n) == IF n < 0 THEN <<"-">> \o DecimalOf(-n) ELSE DecimalOf(n)

\* s right-adjusted in a field of width w, filled on the left with `fill`;
\* a longer s is written whole.
RECURSIVE PadLeft(_, _, _)
PadLeft(s, w, fill) == IF Len(s) >= w THEN s ELSE PadLeft(<<fill>> \o s, w, fill)

\* std::string::substr(pos, n) for pos + n <= length; pos counts from 0.
substr(s, pos, n) == SubSeq(s, pos + 1, pos + n)

ENCODED_TIME_STRING_YEAR_STRING_LENGTH == 4
ENCODED_TIME_STRING_MONTH_STRING_LENGTH == 2
ENCODED_TIME_STRING_DAY_STRING_LENGTH == 2
ENCODED_TIME_STRING_HOUR_STRING_LENGTH == 2
ENCODED_TIME_STRING_MINUTE_STRING_LENGTH == 2
ENCODED_TIME_STRING_SECOND_STRING_LENGTH == 2
ENCODED_TIME_STRING_POSTFIX_STRING_LENGTH == 4
ENCODED_TIME_STRING_DASH_SEPARATOR_STRING == <<"-">>
ENCODED_TIME_STRING_T_SEPARATOR_STRING == <<"T">>
ENCODED_TIME_STRING_COLON_SEPARATOR_STRING == <<":">>
ENCODED_TIME_STRING_PLUS_SEPARATOR_STRING == <<"+">>

ENCODED_TIME_STRING_YEAR_OFFSET == 0
ENCODED_TIME_STRING_MONTH_OFFSET ==
    ENCODED_TIME_STRING_YEAR_OFFSET + ENCODED_TIME_STRING_YEAR_STRING_LENGTH
    + Len(ENCODED_TIME_STRING_DASH_SEPARATOR_STRING)
ENCODED_TIME_STRING_DAY_OFFSET ==
    ENCODED_TIME_STRING_MONTH_OFFSET + ENCODED_TIME_STRING_MONTH_STRING_LENGTH
    + Len(ENCODED_TIME_STRING_DASH_SEPARATOR_STRING)
ENCODED_TIME_STRING_HOUR_OFFSET ==
    ENCODED_TIME_STRING_DAY_OFFSET + ENCODED_TIME_STRING_DAY_STRING_LENGTH
    + Len(ENCODED_TIME_STRING_T_SEPARATOR_STRING)
ENCODED_TIME_STRING_MINUTE_OFFSET ==
    ENCODED_TIME_STRING_HOUR_OFFSET + ENCODED_TIME_STRING_HOUR_STRING_LENGTH
    + Len(ENCODED_TIME_STRING_COLON_SEPARATOR_STRING)
ENCODED_TIME_STRING_SECOND_OFFSET ==
    ENCODED_TIME_STRING_MINUTE_OFFSET + ENCODED_TIME_STRING_MINUTE_STRING_LENGTH
    + Len(ENCODED_TIME_STRING_COLON_SEPARATOR_STRING)

ENCODED_TIME_STRING_EXPECTED_LENGTH ==
    ENCODED_TIME_STRING_SECOND_OFFSET + ENCODED_TIME_STRING_SECOND_STRING_LENGTH
    + Len(ENCODED_TIME_STRING_PLUS_SEPARATOR_STRING)
    + ENCODED_TIME_STRING_POSTFIX_STRING_LENGTH

\* stringToInt(str, &result): fails on an empty text or one holding a character
\* that is no decimal digit, and otherwise yields the number the digits denote.
RECURSIVE DigitsValue(_)
DigitsValue(s) ==
    IF s = << >> THEN 0
    ELSE 10 * DigitsValue(SubSeq(s, 1, Len(s) - 1)) + DigitValue(s[Len(s)])
stringToInt(s) ==
    IF s # << >> /\ \A i \in 1..Len(s) : IsDigit(s[i])
    THEN [ok |-> TRUE, value |-> DigitsValue(s)]
    ELSE [ok |-> FALSE, value |-> 0]

-----------------------------------------------------------------------------
(* The public operations.  Each yields the outcome of one call:               *)
(* [pc, result, dest, logged, nFields, oob], dest being the caller's          *)
(* destination after the call.                                                *)

Outcome(p, r, d, l, n, o) ==
    [pc |-> p, result |-> r, dest |-> d, logged |-> l, nFields |-> n, oob |-> o]

\* What a call that dereferences a null pointer comes to: the process dies, or
\* the call carries on and returns r (e.ub says which this build does).
NullDereference(e, r, d, n) ==
    IF e.ub = "crashed"
    THEN Outcome("crashed", Unset, d, << >>, n, FALSE)
    ELSE Outcome("done", r, d, << >>, n, FALSE)

\* TimeUtils::convertToUtcTimeT(utcTm, ret).
convertToUtcTimeT(tmArg, ret, useCustom, e) ==
    IF ret.null
    THEN Outcome("done", FALSE, ret, <<"return variable is null">>, 0, FALSE)
    ELSE IF tmArg.null THEN NullDereference(e, TRUE, ret, 0)
    ELSE Outcome("done", TRUE,
                 Stored(IF useCustom THEN timegmCustom(tmArg.tm, e.garbage)
                        ELSE timegm(tmArg.tm)),
                 << >>, 0, useCustom /\ timegmCustomOutOfBounds(tmArg.tm))

\* A faulty variant of UnexpectedLength: only a string that is too short is refused.
UnexpectedLength_shortOnly(ts) == Len(ts) < ENCODED_TIME_STRING_EXPECTED_LENGTH

\* timeString.length() != ENCODED_TIME_STRING_EXPECTED_LENGTH
UnexpectedLength(ts) == Len(ts) # ENCODED_TIME_STRING_EXPECTED_LENGTH

\* A failing return of the parser after n fields went to stringToInt.
ParseFailed(convertedTime, message, n) ==
    Outcome("done", FALSE, convertedTime, <<message>>, n, FALSE)

\* The six fields in the order the parser converts them, with the offset and
\* the length of each and the message logged when stringToInt refuses it.
FieldOffset ==
    <<ENCODED_TIME_STRING_YEAR_OFFSET, ENCODED_TIME_STRING_MONTH_OFFSET,
      ENCODED_TIME_STRING_DAY_OFFSET, ENCODED_TIME_STRING_HOUR_OFFSET,
      ENCODED_TIME_STRING_MINUTE_OFFSET, ENCODED_TIME_STRING_SECOND_OFFSET>>
FieldLength ==
    <<ENCODED_TIME_STRING_YEAR_STRING_LENGTH, ENCODED_TIME_STRING_MONTH_STRING_LENGTH,
      ENCODED_TIME_STRING_DAY_STRING_LENGTH, ENCODED_TIME_STRING_HOUR_STRING_LENGTH,
      ENCODED_TIME_STRING_MINUTE_STRING_LENGTH, ENCODED_TIME_STRING_SECOND_STRING_LENGTH>>
FieldError ==
    <<"error parsing year.", "error parsing month.", "error parsing day.",
      "error parsing hour.", "error parsing minute.", "error parsing second.">>

\* stringToInt(timeString.substr(offset, length), &field) for the i-th field.
Field(ts, i) == stringToInt(substr(ts, FieldOffset[i], FieldLength[i]))

\* The chain of `if (!stringToInt(...)) return false`: the first field, in the
\* order year, month, day, hour, minute, second, that stringToInt refuses, or 0.
RECURSIVE FirstBadFieldFrom(_, _)
FirstBadFieldFrom(ts, i) ==
    IF i > 6 THEN 0
    ELSE IF ~Field(ts, i).ok THEN i
    ELSE FirstBadFieldFrom(ts, i + 1)

\* A faulty variant of FirstBadField: the second field's conversion is not checked.
FirstBadField_secondUnchecked(ts) ==
    LET bad == FirstBadFieldFrom(ts, 1) IN IF bad = 6 THEN 0 ELSE bad

FirstBadField(ts) == FirstBadFieldFrom(ts, 1)

\* A faulty variant of AdjustedTm: tm_mon keeps the month as written, 1 to 12.
AdjustedTm_monthNotShifted(y, mon, mday, hour, min, sec) ==
    [tm_year |-> y - 1900, tm_mon |-> mon, tm_mday |-> mday,
     tm_hour |-> hour, tm_min |-> min, tm_sec |-> sec, tm_isdst |-> 0]

\* timeInfo once the fields are in: adjust for C struct tm standard.
AdjustedTm(y, mon, mday, hour, min, sec) ==
    [tm_year |-> y - 1900, tm_mon |-> mon - 1, tm_mday |-> mday,
     tm_hour |-> hour, tm_min |-> min, tm_sec |-> sec, tm_isdst |-> 0]

\* TimeUtils::convert8601TimeStringToUnix(timeString, convertedTime).
convert8601TimeStringToUnix(ts, convertedTime, useCustom, e) ==
    IF convertedTime.null
    THEN ParseFailed(convertedTime, "convertedTime parameter was nullptr.", 0)
    ELSE IF UnexpectedLength(ts)
    THEN ParseFailed(convertedTime, "unexpected time string length:", 0)
    ELSE
    LET bad == FirstBadField(ts)
        timeInfo == AdjustedTm(Field(ts, 1).value, Field(ts, 2).value,
                               Field(ts, 3).value, Field(ts, 4).value,
                               Field(ts, 5).value, Field(ts, 6).value)
        ok == convertToUtcTimeT(PointerTo(timeInfo), FreshDest, useCustom, e)
    IN  IF bad # 0 THEN ParseFailed(convertedTime, FieldError[bad], bad)
        ELSE IF ~ok.result
        THEN Outcome("done", FALSE, convertedTime, ok.logged, 6, ok.oob)
        \* static_cast<int64_t>(convertedTimeT): both are 64 bits wide
        ELSE Outcome("done", TRUE, Stored(ok.dest.val), ok.logged, 6, ok.oob)

\* TimeUtils::getCurrentUnixTime(currentTime); e.now is what the system clock reads.
getCurrentUnixTime(currentTime, e) ==
    IF currentTime.null
    THEN Outcome("done", FALSE, currentTime, <<"currentTime parameter was nullptr.">>,
                 0, FALSE)
    ELSE Outcome("done", TimeNonNegative(e.now), Stored(e.now), << >>, 0, FALSE)

-----------------------------------------------------------------------------
(* The formatter.  A time point [d, ms, us] stands for                        *)
(* (d * 86400000 + ms) * 1000 + us microseconds since the epoch, with         *)
(* 0 <= ms < 86400000 and 0 <= us < 1000; a millisecond count [d, ms] for     *)
(* d * 86400000 + ms.                                                         *)

kMillisecondsInDay == kSecondsInDay * 1000

\* std::chrono::duration_cast<milliseconds>(tp.time_since_epoch()): the count
\* divided by the clock's ticks per millisecond, truncated towards zero.
ToMilliseconds(t) ==
    IF t.d < 0 /\ t.us > 0
    THEN [d |-> t.d + ((t.ms + 1) \div kMillisecondsInDay),
          ms |-> (t.ms + 1) % kMillisecondsInDay]
    ELSE [d |-> t.d, ms |-> t.ms]

\* std::chrono::duration_cast<seconds>(ms), as a time_t: ms / 1000 truncated
\* towards zero, which rounds a negative count up.
ToSeconds(m) ==
    IF m.d >= 0
    THEN TimeAdd(Days(m.d), Seconds(m.ms \div 1000))
    ELSE TimeAdd(Days(m.d), Seconds((m.ms + 999) \div 1000))

\* ms.count() % 1000: the remainder of the truncated division, of the sign of ms.
MillisecondRemainder(m) ==
    IF m.d >= 0 THEN m.ms % 1000 ELSE -((1000 - (m.ms % 1000)) % 1000)

\* What "%Y-%m-%dT%H:%M:%S" renders: the year in decimal, the other fields as
\* two digits.
TwoDigits(n) == PadLeft(IntText(n), 2, "0")
RenderedTime(tm) ==
    IntText(tm.tm_year + 1900) \o <<"-">> \o TwoDigits(tm.tm_mon + 1) \o <<"-">>
    \o TwoDigits(tm.tm_mday) \o <<"T">> \o TwoDigits(tm.tm_hour) \o <<":">>
    \o TwoDigits(tm.tm_min) \o <<":">> \o TwoDigits(tm.tm_sec)

\* std::strftime(buf, sizeof(buf) - 1, ...) on the 29-byte buf: the length
\* written, or 0 when the text and its terminator do not fit or the platform fails.
kBufSize == 29
strftimeResult(tm, e) ==
    IF e.strftimeOk /\ Len(RenderedTime(tm)) + 1 <= kBufSize - 1
    THEN Len(RenderedTime(tm))
    ELSE 0

\* A faulty variant of millisecondTrailer: the width of the millisecond field is not set.
millisecondTrailer_noWidth(buf, m) ==
    buf \o <<".">> \o IntText(MillisecondRemainder(m)) \o <<"Z">>

\* millisecondTrailer << buf << "." << setfill('0') << setw(3) << (ms.count() % 1000) << "Z"
millisecondTrailer(buf, m) ==
    buf \o <<".">> \o PadLeft(IntText(MillisecondRemainder(m)), 3, "0") \o <<"Z">>

\* TimeUtils::convertTimeToUtcIso8601Rfc3339(tp, iso8601TimeString).
convertTimeToUtcIso8601Rfc3339(t, iso8601TimeString, e) ==
    LET ms == ToMilliseconds(t)
        timeSecs == ToSeconds(ms)
        tmBroken == getGmtime(timeSecs)
    IN  IF ~e.gmtimeOk
        THEN Outcome("done", FALSE, iso8601TimeString,
                     <<"cannot retrieve tm struct">>, 0, FALSE)
        ELSE IF strftimeResult(tmBroken, e) = 0
        THEN Outcome("done", FALSE, iso8601TimeString,
                     <<"strftime(..) failed">>, 0, FALSE)
        ELSE IF iso8601TimeString.null
        THEN NullDereference(e, TRUE, iso8601TimeString, 0)
        ELSE Outcome("done", TRUE,
                     Stored(millisecondTrailer(RenderedTime(tmBroken), ms)),
                     << >>, 0, FALSE)

-----------------------------------------------------------------------------
(* Encoded time strings to parse *)

\* The text of a field value n in w digits.
FieldText(n, w) == PadLeft(DecimalOf(n), w, "0")

\* The separators and the 5-character tail of an encoded string: those of the
\* format, and others of the same widths.
Styles ==
    { [dash |-> <<"-">>, t |-> <<"T">>, colon |-> <<":">>,
       tail |-> <<"+", "0", "0", "0", "0">>],
      [dash |-> <<"/">>, t |-> <<" ">>, colon |-> <<"h">>,
       tail |-> <<".", "1", "2", "3", "Z">>] }
StandardStyle == CHOOSE st \in Styles : st.dash = <<"-">>

EncodedTime(y, mon, mday, hour, min, sec, st) ==
    FieldText(y, 4) \o st.dash \o FieldText(mon, 2) \o st.dash \o FieldText(mday, 2)
    \o st.t \o FieldText(hour, 2) \o st.colon \o FieldText(min, 2) \o st.colon
    \o FieldText(sec, 2) \o st.tail

\* "2018-01-02T03:04:05+0000"
SampleString == EncodedTime(2018, 1, 2, 3, 4, 5, StandardStyle)

\* Strings of every length from 0 to the expected length + MaxExtraLength.
MaxExtraLength == 2
RECURSIVE Repeat(_, _)
Repeat(c, n) == IF n = 0 THEN << >> ELSE <<c>> \o Repeat(c, n - 1)
OfLength(base, n) ==
    IF n <= Len(base) THEN SubSeq(base, 1, n) ELSE base \o Repeat("0", n - Len(base))
OddLengthStrings ==
    { OfLength(EncodedTime(2018, 1, 1, 0, 0, 0, StandardStyle), n) :
        n \in (0..(24 + MaxExtraLength)) \ {24} }

\* SampleString with the characters at positions p and q replaced by c.
NonDigits == {"x", " ", "-", "+"}
CorruptedStrings ==
    { [SampleString EXCEPT ![p] = c, ![q] = c] : p \in 1..24, q \in 1..24, c \in NonDigits }

\* What an out-of-bounds read of a cumulative-days table may find beside it.
GarbageDays == {0, 7}

\* The field values tried: every year with the turn of February, and a few
\* years with every month field up to MaxMonthField and the edges of the others.
MaxMonthField == 14
ParseYears == {0, 1600, 1900, 1969, 1970, 1972, 2000, 2018, 2100, 9999}
MonthFields == (0..MaxMonthField) \cup {99}
DayFields == {0, 1, 28, 29, 30, 31, 32, 99}
HourFields == {0, 23, 99}
MinuteFields == {0, 59}
SecondFields == {0, 59, 60}

-----------------------------------------------------------------------------
(* SpecParse: convert8601TimeStringToUnix on well-formed and malformed strings *)

InitParse ==
    /\ pc = "start"
    /\ op = "convert8601TimeStringToUnix"
    /\ USE_CUSTOM_TIMEGM \in BOOLEAN
    /\ year = 0
    /\ utcTm = NoTm
    /\ \/ /\ \E y \in 0..9999, mon \in {2, 3} :
                timeString = EncodedTime(y, mon, 1, 0, 0, 0, StandardStyle)
          /\ env = QuietEnv
       \/ \E y \in ParseYears, mon \in MonthFields, mday \in DayFields,
             hour \in HourFields, min \in MinuteFields, sec \in SecondFields,
             st \in Styles :
             /\ timeString = EncodedTime(y, mon, mday, hour, min, sec, st)
             /\ \E g \in (IF mon \in 1..12 THEN {0} ELSE GarbageDays) :
                   env = [QuietEnv EXCEPT !.garbage = g]
       \/ /\ timeString \in OddLengthStrings \cup CorruptedStrings
          /\ env = QuietEnv
    /\ tp = NoTimePoint
    /\ dest = FreshDest
    /\ result = Unset
    /\ logged = << >>
    /\ nFields = 0
    /\ oob = FALSE

\* The caller invokes convert8601TimeStringToUnix(timeString, &dest).
convert8601TimeStringToUnixCall ==
    /\ pc = "start"
    /\ op = "convert8601TimeStringToUnix"
    /\ LET r == convert8601TimeStringToUnix(timeString, dest, USE_CUSTOM_TIMEGM, env)
       IN  /\ pc' = r.pc
           /\ result' = r.result
           /\ dest' = r.dest
           /\ logged' = r.logged
           /\ nFields' = r.nFields
           /\ oob' = r.oob
    /\ UNCHANGED <<op, USE_CUSTOM_TIMEGM, year, utcTm, timeString, tp, env>>

NextParse == convert8601TimeStringToUnixCall

SpecParse == InitParse /\ [][NextParse]_vars

\* The six fields of a 24-character string, read at their fixed places.
YearChars(ts) == SubSeq(ts, 1, 4)
MonthChars(ts) == SubSeq(ts, 6, 7)
DayChars(ts) == SubSeq(ts, 9, 10)
HourChars(ts) == SubSeq(ts, 12, 13)
MinuteChars(ts) == SubSeq(ts, 15, 16)
SecondChars(ts) == SubSeq(ts, 18, 19)
FieldChars(ts) ==
    <<YearChars(ts), MonthChars(ts), DayChars(ts), HourChars(ts), MinuteChars(ts),
      SecondChars(ts)>>
Numeric(s) == \A i \in 1..Len(s) : \E v \in 0..9 : DecimalOf(v) = <<s[i]>>
AllFieldsNumeric(ts) == \A i \in 1..6 : Numeric(FieldChars(ts)[i])

\* The number a numeric text denotes, digit by digit from the left.
RECURSIVE NumberOf(_, _)
NumberOf(s, acc) ==
    IF s = << >> THEN acc
    ELSE NumberOf(Tail(s), 10 * acc + (CHOOSE v \in 0..9 : DecimalOf(v) = <<Head(s)>>))

\* civilToEpoch of the civil time y-mon-mday hour:min:sec: whole years of 365
\* days, the leap days between 1970 and y, the days of the months before mon,
\* then days, hours, minutes and seconds.
LeapDaysBefore(y) == ((y - 1) \div 4) - ((y - 1) \div 100) + ((y - 1) \div 400)
RECURSIVE DaysBeforeMonth(_, _)
DaysBeforeMonth(y, mon) ==
    IF mon = 1 THEN 0 ELSE DaysBeforeMonth(y, mon - 1) + DaysInMonth(y, mon - 1)
civilToEpoch(y, mon, mday, hour, min, sec) ==
    TimeAdd(Days((y - 1970) * 365 + (LeapDaysBefore(y) - LeapDaysBefore(1970))
                 + DaysBeforeMonth(y, mon) + (mday - 1)),
            Seconds(hour * 3600 + min * 60 + sec))

\* C3: on a 24-character string whose six fields are numeric and whose month
\* is 01 to 12, the parser returns true and writes civilToEpoch of the six
\* field values, whatever the separators and the 5-character tail are.
C3_ParserYieldsCivilToEpoch ==
    (/\ pc = "done"
     /\ op = "convert8601TimeStringToUnix"
     /\ ~dest.null
     /\ Len(timeString) = 24
     /\ AllFieldsNumeric(timeString)
     /\ NumberOf(MonthChars(timeString), 0) \in 1..12)
    => /\ result = TRUE
       /\ dest.written
       /\ dest.val = civilToEpoch(NumberOf(YearChars(timeString), 0),
                                  NumberOf(MonthChars(timeString), 0),
                                  NumberOf(DayChars(timeString), 0),
                                  NumberOf(HourChars(timeString), 0),
                                  NumberOf(MinuteChars(timeString), 0),
                                  NumberOf(SecondChars(timeString), 0))

\* The parser has accepted a string with other separators and another tail than
\* the format's, on the build with timegmCustom.
C3_Witness ==
    /\ pc = "done"
    /\ op = "convert8601TimeStringToUnix"
    /\ USE_CUSTOM_TIMEGM
    /\ timeString = <<"2", "0", "0", "0", "/", "0", "2", "/", "2", "9", " ",
                      "2", "3", "h", "5", "9", "h", "6", "0", ".", "1", "2", "3", "Z">>
    /\ result = TRUE
    /\ dest.val = [d |-> 11017, s |-> 0]

\* C4: a string whose length is not 24 = 4+1+2+1+2+1+2+1+2+1+2+1+4 is refused
\* before any field is extracted, whether it is shorter or longer.
C4_OtherLengthsRejected ==
    /\ ENCODED_TIME_STRING_EXPECTED_LENGTH = 4 + 1 + 2 + 1 + 2 + 1 + 2 + 1 + 2 + 1 + 2 + 1 + 4
    /\ (pc = "done" /\ op = "convert8601TimeStringToUnix" /\ Len(timeString) # 24)
       => /\ result = FALSE
          /\ nFields = 0
          /\ ~dest.written

\* The parser has refused "2018-01-01T00:00:00+000", one character short.
C4_Witness ==
    /\ pc = "done"
    /\ op = "convert8601TimeStringToUnix"
    /\ result = FALSE
    /\ logged = <<"unexpected time string length:">>
    /\ timeString = <<"2", "0", "1", "8", "-", "0", "1", "-", "0", "1", "T",
                      "0", "0", ":", "0", "0", ":", "0", "0", "+", "0", "0", "0">>

\* C5: no call of timegmCustom that the parser makes indexes a cumulative-days
\* table outside 0..11.
C5_TableIndexInRange ==
    (pc = "done" /\ op = "convert8601TimeStringToUnix") => ~oob

-----------------------------------------------------------------------------
(* SpecFormat: convertTimeToUtcIso8601Rfc3339, and its output parsed again *)

\* The days tried: every day within MaxDaysAround of the epoch, and the edges of
\* the 4-digit years, of centuries and of leap days further away.
MaxDaysAround == 400
FarDates ==
    { <<999, 12, 31>>, <<1000, 1, 1>>, <<1899, 12, 31>>, <<1900, 2, 28>>,
      <<1900, 3, 1>>, <<1972, 2, 29>>, <<2000, 2, 29>>, <<2018, 1, 2>>,
      <<2038, 1, 19>>, <<2100, 3, 1>>, <<9999, 12, 31>>, <<10000, 1, 1>> }
FormatDays ==
    ((-MaxDaysAround)..MaxDaysAround)
    \cup { DaysFromCivil(ymd[1], ymd[2], ymd[3]) : ymd \in FarDates }
FormatMilliseconds == {0, 5, 999, 1000, 1500, 40500, 43200123, 86398500, 86399999}
FormatMicroseconds == {0, 1, 999}

InitFormat ==
    /\ pc = "start"
    /\ op = "convertTimeToUtcIso8601Rfc3339"
    /\ USE_CUSTOM_TIMEGM \in BOOLEAN
    /\ year = 0
    /\ utcTm = NoTm
    /\ timeString = NoString
    /\ \E d \in FormatDays, ms \in FormatMilliseconds, us \in FormatMicroseconds :
          tp = [d |-> d, ms |-> ms, us |-> us]
    /\ dest = FreshString
    /\ result = Unset
    /\ logged = << >>
    /\ nFields = 0
    /\ oob = FALSE
    /\ env = QuietEnv

\* The caller invokes convertTimeToUtcIso8601Rfc3339(tp, &dest).
convertTimeToUtcIso8601Rfc3339Call ==
    /\ pc = "start"
    /\ op = "convertTimeToUtcIso8601Rfc3339"
    /\ LET r == convertTimeToUtcIso8601Rfc3339(tp, dest, env)
       IN  /\ pc' = r.pc
           /\ result' = r.result
           /\ dest' = r.dest
           /\ logged' = r.logged
           /\ nFields' = r.nFields
           /\ oob' = r.oob
    /\ UNCHANGED <<op, USE_CUSTOM_TIMEGM, year, utcTm, timeString, tp, env>>

\* The caller takes the string the formatter wrote as the input of the parser.
PassFormattedToParser ==
    /\ pc = "done"
    /\ op = "convertTimeToUtcIso8601Rfc3339"
    /\ result = TRUE
    /\ dest.written
    /\ timeString' = dest.val
    /\ dest' = FreshDest
    /\ op' = "convert8601TimeStringToUnix"
    /\ pc' = "start"
    /\ result' = Unset
    /\ UNCHANGED <<USE_CUSTOM_TIMEGM, year, utcTm, tp, logged, nFields, oob, env>>

NextFormat ==
    \/ convertTimeToUtcIso8601Rfc3339Call
    \/ PassFormattedToParser
    \/ convert8601TimeStringToUnixCall

SpecFormat == InitFormat /\ [][NextFormat]_vars

\* The time point lies in a year of four digits, 1000 to 9999.
FourDigitYear(t) == t.d \in DaysFromCivil(1000, 1, 1)..DaysFromCivil(9999, 12, 31)

\* C6: when the formatter succeeds on a time point of a 4-digit year, before or
\* after the epoch, it writes 24 characters: the 19 of YYYY-MM-DDTHH:MM:SS, '.',
\* three digits that are the millisecond remainder in 0..999, and 'Z'; the
\* second rendered and the millisecond field are tp truncated to milliseconds.
C6_FormatterWritesFixedProfile ==
    (/\ pc = "done"
     /\ op = "convertTimeToUtcIso8601Rfc3339"
     /\ result = TRUE
     /\ FourDigitYear(tp))
    => LET str == dest.val
       IN  /\ Len(str) = 24
           /\ str[20] = "."
           /\ Numeric(SubSeq(str, 21, 23))
           /\ str[24] = "Z"
           /\ AllFieldsNumeric(str)
           /\ civilToEpoch(NumberOf(YearChars(str), 0), NumberOf(MonthChars(str), 0),
                           NumberOf(DayChars(str), 0), NumberOf(HourChars(str), 0),
                           NumberOf(MinuteChars(str), 0), NumberOf(SecondChars(str), 0))
              = [d |-> ToMilliseconds(tp).d, s |-> ToMilliseconds(tp).ms \div 1000]
           /\ NumberOf(SubSeq(str, 21, 23), 0) = ToMilliseconds(tp).ms % 1000

\* C10: for a time point at or after the epoch in a 4-digit year, the string
\* the formatter writes has the length the parser expects, the parser accepts
\* it, and it parses to the whole seconds of the time point.
C10_FormatThenParse ==
    /\ (pc = "start" /\ op = "convert8601TimeStringToUnix"
        /\ tp.d >= 0 /\ FourDigitYear(tp))
       => Len(timeString) = ENCODED_TIME_STRING_EXPECTED_LENGTH
    /\ (pc = "done" /\ op = "convert8601TimeStringToUnix"
        /\ tp.d >= 0 /\ FourDigitYear(tp))
       => /\ Len(timeString) = 24
          /\ result = TRUE
          /\ dest.written
          /\ dest.val = [d |-> tp.d, s |-> tp.ms \div 1000]

\* The string formatted for 5 ms and 1 us after 1972-02-29T00:00:00 has been
\* parsed back to that second.
C10_Witness ==
    /\ pc = "done"
    /\ op = "convert8601TimeStringToUnix"
    /\ tp = [d |-> 789, ms |-> 5, us |-> 1]
    /\ timeString = <<"1", "9", "7", "2", "-", "0", "2", "-", "2", "9", "T",
                      "0", "0", ":", "0", "0", ":", "0", "0", ".", "0", "0", "5", "Z">>
    /\ result = TRUE
    /\ dest.val = Days(789)

-----------------------------------------------------------------------------
(* Spec: the four public operations, with destinations that may be null and a *)
(* platform that may fail                                                     *)

ApiTms ==
    { Tm(70, 0, 1, 0, 0, 0), Tm(69, 11, 31, 23, 59, 59), Tm(100, 1, 29, 12, 0, 0),
      Tm(118, 12, 1, 0, 0, 0), Tm(118, -1, 1, 0, 0, 0) }
ApiStrings ==
    { SampleString, EncodedTime(1969, 12, 31, 23, 59, 59, StandardStyle),
      EncodedTime(2018, 13, 1, 0, 0, 0, StandardStyle) }
    \cup OddLengthStrings \cup CorruptedStrings
ApiClock == { Seconds(-1), Seconds(0), Seconds(1), Days(-1), Days(20000) }
ApiTimePoints ==
    { [d |-> d, ms |-> ms, us |-> us] :
        d \in {-1, 0, 17533}, ms \in {0, 5, 1500, 86399999}, us \in {0, 999} }
UndefinedOutcomes == {"crashed", "returned"}

Init ==
    /\ pc = "start"
    /\ USE_CUSTOM_TIMEGM \in BOOLEAN
    /\ year = 0
    /\ result = Unset
    /\ logged = << >>
    /\ nFields = 0
    /\ oob = FALSE
    /\ \/ /\ op = "convertToUtcTimeT"
          /\ utcTm \in {NoTm} \cup { PointerTo(tm) : tm \in ApiTms }
          /\ timeString = NoString
          /\ tp = NoTimePoint
          /\ dest \in {FreshDest, NullDest}
          /\ \E g \in GarbageDays, u \in UndefinedOutcomes :
                env = [QuietEnv EXCEPT !.garbage = g, !.ub = u]
       \/ /\ op = "convert8601TimeStringToUnix"
          /\ utcTm = NoTm
          /\ timeString \in ApiStrings
          /\ tp = NoTimePoint
          /\ dest \in {FreshDest, NullDest}
          /\ env = QuietEnv
       \/ /\ op = "getCurrentUnixTime"
          /\ utcTm = NoTm
          /\ timeString = NoString
          /\ tp = NoTimePoint
          /\ dest \in {FreshDest, NullDest}
          /\ \E now \in ApiClock : env = [QuietEnv EXCEPT !.now = now]
       \/ /\ op = "convertTimeToUtcIso8601Rfc3339"
          /\ utcTm = NoTm
          /\ timeString = NoString
          /\ tp \in ApiTimePoints
          /\ dest \in {FreshString, NullString}
          /\ \E g \in BOOLEAN, s \in BOOLEAN, u \in UndefinedOutcomes :
                env = [QuietEnv EXCEPT !.gmtimeOk = g, !.strftimeOk = s, !.ub = u]

\* The caller invokes convertToUtcTimeT(utcTm, &dest).
convertToUtcTimeTCall ==
    /\ pc = "start"
    /\ op = "convertToUtcTimeT"
    /\ LET r == convertToUtcTimeT(utcTm, dest, USE_CUSTOM_TIMEGM, env)
       IN  /\ pc' = r.pc
           /\ result' = r.result
           /\ dest' = r.dest
           /\ logged' = r.logged
           /\ nFields' = r.nFields
           /\ oob' = r.oob
    /\ UNCHANGED <<op, USE_CUSTOM_TIMEGM, year, utcTm, timeString, tp, env>>

\* The caller invokes getCurrentUnixTime(&dest).
getCurrentUnixTimeCall ==
    /\ pc = "start"
    /\ op = "getCurrentUnixTime"
    /\ LET r == getCurrentUnixTime(dest, env)
       IN  /\ pc' = r.pc
           /\ result' = r.result
           /\ dest' = r.dest
           /\ logged' = r.logged
           /\ nFields' = r.nFields
           /\ oob' = r.oob
    /\ UNCHANGED <<op, USE_CUSTOM_TIMEGM, year, utcTm, timeString, tp, env>>

Next ==
    \/ convertToUtcTimeTCall
    \/ convert8601TimeStringToUnixCall
    \/ getCurrentUnixTimeCall
    \/ convertTimeToUtcIso8601Rfc3339Call

Spec == Init /\ [][Next]_vars

\* The first of the six fields that is not numeric, 0 when all are.
FirstNonNumeric(ts) ==
    IF AllFieldsNumeric(ts) THEN 0
    ELSE CHOOSE i \in 1..6 :
            /\ ~Numeric(FieldChars(ts)[i])
            /\ \A j \in 1..(i - 1) : Numeric(FieldChars(ts)[j])

\* C7: a 24-character string with a non-numeric field makes the parser return
\* false at the first such field, in the order year, month, day, hour, minute,
\* second; and whenever the parser or the formatter returns false, the
\* caller's destination has not been written.
C7_BadFieldFailsAndNothingWritten ==
    /\ (/\ pc = "done"
        /\ op = "convert8601TimeStringToUnix"
        /\ ~dest.null
        /\ Len(timeString) = 24
        /\ ~AllFieldsNumeric(timeString))
       => /\ result = FALSE
          /\ nFields = FirstNonNumeric(timeString)
          /\ logged = << <<"error parsing year.", "error parsing month.",
                           "error parsing day.", "error parsing hour.",
                           "error parsing minute.", "error parsing second.">>
                         [FirstNonNumeric(timeString)] >>
    /\ (/\ pc = "done"
        /\ op \in {"convert8601TimeStringToUnix", "convertTimeToUtcIso8601Rfc3339"}
        /\ result = FALSE)
       => ~dest.written

\* The parser has stopped at the day of "2018-01-x2T03:04:x5+0000", the first of
\* its two bad fields, and has written nothing.
C7_Witness ==
    /\ pc = "done"
    /\ op = "convert8601TimeStringToUnix"
    /\ timeString = <<"2", "0", "1", "8", "-", "0", "1", "-", "x", "2", "T",
                      "0", "3", ":", "0", "4", ":", "x", "5", "+", "0", "0", "0", "0">>
    /\ ~dest.null
    /\ result = FALSE
    /\ nFields = 3
    /\ ~dest.written

\* C8: a call given no destination returns false and stores nothing, whatever
\* its other arguments are.
C8_NullDestinationReturnsFalse ==
    (pc # "start" /\ dest.null) => (pc = "done" /\ result = FALSE /\ ~dest.written)

=============================================================================
